---- MODULE Spec2Model ----
(***************************************************************************)
(* A model of stock_app.py: the EDINET document locator                    *)
(* (search_docid_by_company_name), the two metric extractors               *)
(* (extract_financial_metrics, extract_metrics_from_xbrl), the fetch       *)
(* orchestrator (fetch_data_by_docid) and the archive download save_csv.   *)
(*                                                                         *)
(* Python strings are sequences of one-character strings.  A JSON value is *)
(* a tagged record: Str(s) for a string, Null for null / None.  A JSON     *)
(* object is a TLA+ record; a key the object lacks is a field the record   *)
(* lacks.                                                                  *)
(***************************************************************************)
EXTENDS Integers, Sequences, FiniteSets, TLC

VARIABLES
    \* ---- search_docid_by_company_name
    company,    \* the argument company_name
    today,      \* datetime.today().weekday(): 0 = Monday .. 6 = Sunday
    iter,       \* loop iterations begun; date = today - iter days
    lpc,        \* "loop" | "scan" | "done"
    listing,    \* res.json().get("results", []) of the day being scanned
    ridx,       \* position of the for-loop over listing
    lresult,    \* the returned 4-tuple, as a record
    history,    \* one entry per day queried, in query order
    \* ---- fetch_data_by_docid, called by the search handler
    csv_flag,   \* the csv_flag the locator returned
    fpc,        \* "start" | "csv_read" | "xbrl" | "xbrl_read" | "returned" | "raised"
    requests,   \* the `type` of every archive request made, in order
    failures,   \* every failed attempt: its type and its cause, in order
    entry,      \* file_name of the archive entry being read
    fresult,    \* the returned pair (metrics, source), as a record
    origin,     \* the request type, entry and payload the result was extracted from
    \* ---- save_csv, called for each docID of docID_dict
    spc,        \* "call" | "written" | "extracted" | "finished" | "crashed"
    sidx,       \* position in docID_dict
    files,      \* paths that exist on disk
    scontent,   \* whether r.content is a well-formed zip
    ended       \* every save_csv call that has stopped, in order

lvars == <<company, today, iter, lpc, listing, ridx, lresult, history>>
fvars == <<csv_flag, fpc, requests, failures, entry, fresult, origin>>
svars == <<spc, sidx, files, scontent, ended>>

vars == <<lvars, fvars, svars>>

----------------------------------------------------------------------------
(* Bounds of the model *)

DaysBack == 3   \* the argument days_back (180 by default)
MaxRecs == 2    \* longest day listing the registry returns
MaxEntries == 2 \* most entries in an archive's namelist
MaxRows == 2    \* most rows in a table
MaxElems == 2   \* most elements in a tagged document

----------------------------------------------------------------------------
(* Values *)

Str(s) == [t |-> "str", s |-> s]
Null == [t |-> "null"]

BSeq(S, n) == UNION {[1..k -> S] : k \in 0..n}

\* s[i..] contains pat as a contiguous run
IsSubstr(pat, s) ==
    \E i \in 0..(Len(s) - Len(pat)) : SubSeq(s, i + 1, i + Len(pat)) = pat

\* Python `pat in v` for a str pat: a TypeError when v is None
PyIn(pat, v) ==
    IF v.t = "null" THEN "TypeError"
    ELSE IF IsSubstr(pat, v.s) THEN "true" ELSE "false"

\* dict.get(key, default)
Get(doc, key, default) == IF key \in DOMAIN doc THEN doc[key] ELSE default

----------------------------------------------------------------------------
(* search_docid_by_company_name *)

\* the literal looked for in docDescription (line 46, "quarterly report"),
\* two symbols long here
Keyword == <<"Q", "R">>

Companies == {<<"a", "b">>, <<"b">>}

\* the records a day listing is drawn from (docID is added per position)
DocShapes ==
    { [filerName |-> Str(<<"x", "a", "b">>), docDescription |-> Str(<<"1", "Q", "R">>),
       csvFlag |-> Str(<<"1">>)],
      [filerName |-> Str(<<"b", "c">>), docDescription |-> Str(<<"Q", "R">>)],
      [filerName |-> Str(<<"c">>), docDescription |-> Null, csvFlag |-> Str(<<"0">>)],
      [filerName |-> Null, docDescription |-> Str(<<"Q", "R">>), csvFlag |-> Str(<<"1">>)],
      [filerName |-> Str(<<"a", "b">>), docDescription |-> Null, csvFlag |-> Str(<<"1">>)],
      [docDescription |-> Str(<<"Q", "R">>), csvFlag |-> Str(<<"0">>)] }

MkListing(day, shapes) ==
    [i \in 1..Len(shapes) |-> [docID |-> Str(<<day, i>>)] @@ shapes[i]]

\* date.weekday() after `date -= timedelta(days=1)` has run k times
Weekday(k) == (today + 7 * k - k) % 7

NotFound == [docID |-> Null, name |-> Null, desc |-> Null, csv_flag |-> Str(<<"0">>)]

\* lines 43-47: what one pass of the loop body does with doc
Examine(doc) ==
    LET name == Get(doc, "filerName", Str(<<>>))
        desc == Get(doc, "docDescription", Str(<<>>))
        c1 == PyIn(company, name)
        c2 == PyIn(Keyword, desc)
    IN  IF c1 = "TypeError" THEN "raise"
        ELSE IF c1 = "false" THEN "next"
        ELSE IF c2 = "TypeError" THEN "raise"
        ELSE IF c2 = "true" THEN "return" ELSE "next"

\* line 47: the tuple returned for doc
Found(doc) ==
    [docID |-> Get(doc, "docID", Null),
     name |-> Get(doc, "filerName", Str(<<>>)),
     desc |-> Get(doc, "docDescription", Str(<<>>)),
     csv_flag |-> Get(doc, "csvFlag", Str(<<"0">>))]

\* lines 48-49 with `return None, None, None, "0"` in place of `continue`
AbortOnQueryException(res) == [pc |-> "done", result |-> NotFound]

\* lines 48-49: `except Exception: continue`
OnQueryException(res) == [pc |-> "loop", result |-> res]

\* the record of a day in history: the first position of the listing whose
\* filer name is a string containing company and whose description is a
\* string containing Keyword (0 when there is none)
IsMatch(doc) ==
    /\ "filerName" \in DOMAIN doc /\ doc.filerName.t = "str"
    /\ IsSubstr(company, doc.filerName.s)
    /\ "docDescription" \in DOMAIN doc /\ doc.docDescription.t = "str"
    /\ IsSubstr(Keyword, doc.docDescription.s)

FirstMatch(l) ==
    IF \E i \in 1..Len(l) : IsMatch(l[i])
    THEN CHOOSE i \in 1..Len(l) : IsMatch(l[i]) /\ \A j \in 1..(i - 1) : ~IsMatch(l[j])
    ELSE 0

----------------------------------------------------------------------------
(* extract_financial_metrics *)

\* the two required column names of line 74 (item ID, amount), romanised
ItemIdCol == "KoumokuID"
AmountCol == "Kingaku"

\* the key and the message of the dict of line 75, romanised
ErrorKey == "Error"
ErrorMsg == Str(<<"unknown CSV format">>)

\* line 77
keywords == <<"NetSales", "OperatingIncome", "OrdinaryIncome", "NetIncome">>

Range(f) == {f[i] : i \in DOMAIN f}

\* an item ID is a sequence of name parts; a missing one is Null (NaN)
ItemIds ==
    { Str(<<"jppfs_cor:", "NetSales">>), Str(<<"Non", "OperatingIncome">>),
      Str(<<"NetIncome">>), Str(<<"Assets">>), Null }

Amounts == {Str(<<"1", "0", "0", "0">>), Null}

ColumnSets == {{ItemIdCol, AmountCol}, {ItemIdCol, "Value"}, {"ItemID", "Amount"}}

Tables ==
    { [k |-> "table", cols |-> c, rows |-> r] :
        c \in ColumnSets,
        r \in BSeq([id : ItemIds, amount : Amounts], MaxRows) }

\* Series.astype(str): NaN becomes the string "nan"
AsTypeStr(v) == IF v.t = "null" THEN <<"nan">> ELSE v.s

\* line 80: the positions of the rows whose item ID contains kw
MatchingRows(df, kw) ==
    {i \in 1..Len(df.rows) : IsSubstr(<<kw>>, AsTypeStr(df.rows[i].id))}

Min(S) == CHOOSE x \in S : \A y \in S : x <= y

\* lines 74-75: the required columns are absent
MissingColumnsResult == [k \in {ErrorKey} |-> ErrorMsg]

\* lines 73-84
extract_financial_metrics(df) ==
    IF ~({ItemIdCol, AmountCol} \subseteq df.cols)
    THEN MissingColumnsResult
    ELSE LET matched == {kw \in Range(keywords) : MatchingRows(df, kw) # {}}
         IN  [kw \in matched |-> df.rows[Min(MatchingRows(df, kw))].amount]

----------------------------------------------------------------------------
(* extract_metrics_from_xbrl *)

\* lines 92-97
tag_map ==
    [NetSales |-> <<"NetSales", "NetSalesConsolidated", "NetSalesOfReportingSegment">>,
     OperatingIncome |-> <<"OperatingIncome", "OperatingIncomeConsolidated">>,
     OrdinaryIncome |-> <<"OrdinaryIncome", "OrdinaryIncomeConsolidated">>,
     NetIncome |-> <<"NetIncome", "Profit", "NetIncomeAttributableToOwnersOfParent">>]

\* line 105
NA == Str(<<"N", "/", "A">>)

\* characters: ASCII digits, other characters str.isdigit() accepts
\* (U+FF15 FULLWIDTH DIGIT FIVE, U+00B2 SUPERSCRIPT TWO), whitespace, others
AsciiDigits == {"0", "1", "2", "3", "4", "5", "6", "7", "8", "9"}
OtherDigits == {"U+FF15", "U+00B2"}
Whitespace == {" ", "\n"}

\* str.isdigit(): non-empty and every character is a digit
IsDigit(s) == Len(s) > 0 /\ \A i \in 1..Len(s) : s[i] \in AsciiDigits \cup OtherDigits

\* str.strip(): leading and trailing whitespace removed
Strip(s) ==
    LET keep == {i \in 1..Len(s) : s[i] \notin Whitespace}
    IN  IF keep = {} THEN <<>>
        ELSE SubSeq(s, Min(keep), CHOOSE x \in keep : \A y \in keep : y <= x)

\* the texts and the element names a tagged document is drawn from
Texts ==
    { <<>>, <<"5", "0", "0">>, <<"1", ",", "2">>, <<"U+00A5", "5">>, <<"-", "5">>,
      <<" ", "7", "\n">>, <<"U+FF15">>, <<"U+00B2">> }

ElemNames == {"NetSales", "NetSalesConsolidated", "OperatingIncome", "Assets"}

XmlDocs ==
    { [k |-> "xml", elems |-> e] : e \in BSeq([tag : ElemNames, text : Texts], MaxElems) }

\* soup.find(tag): the position of the first element of that name, 0 for None
Find(doc, tag) ==
    LET at == {i \in 1..Len(doc.elems) : doc.elems[i].tag = tag}
    IN  IF at = {} THEN 0 ELSE Min(at)

\* line 101: found and found.text.strip().isdigit()
Accepted(doc, tag) ==
    Find(doc, tag) # 0 /\ IsDigit(Strip(doc.elems[Find(doc, tag)].text))

RECURSIVE ResolveFrom(_, _, _)
\* lines 99-105, from the alias at position i on
ResolveFrom(doc, tags, i) ==
    IF i > Len(tags) THEN NA
    ELSE IF Accepted(doc, tags[i])
         THEN Str(Strip(doc.elems[Find(doc, tags[i])].text))
         ELSE ResolveFrom(doc, tags, i + 1)

RECURSIVE ResolveLastFrom(_, _, _, _)
ResolveLastFrom(doc, tags, i, acc) ==
    IF i > Len(tags) THEN acc
    ELSE IF Accepted(doc, tags[i])
         THEN ResolveLastFrom(doc, tags, i + 1, Str(Strip(doc.elems[Find(doc, tags[i])].text)))
         ELSE ResolveLastFrom(doc, tags, i + 1, acc)

\* lines 99-105 without the `break`: the last accepted alias wins
ResolveNoBreak(doc, tags) == ResolveLastFrom(doc, tags, 1, NA)

\* lines 99-105: the value of one label
Resolve(doc, tags) == ResolveFrom(doc, tags, 1)

\* lines 89-106
extract_metrics_from_xbrl(doc) ==
    [label \in DOMAIN tag_map |-> Resolve(doc, tag_map[label])]

----------------------------------------------------------------------------
(* fetch_data_by_docid *)

CsvType == 5
XbrlType == 1

CsvFlags == {Str(<<"1">>), Str(<<"0">>)}

\* line 172: use_csv=(csv_flag == "1")
use_csv == csv_flag = Str(<<"1">>)

\* the value of the Content-Type header, in parts; <<>> when it is absent
ContentTypes == {<<"application/", "zip">>, <<"application/", "json">>, <<>>}

EntryNames ==
    { <<"XBRL_TO_CSV/", "a", ".csv">>, <<"XBRL/", "PublicDoc", "/", "x", ".xbrl">>,
      <<"XBRL/", "AuditDoc", "/", "y", ".xbrl">>, <<"XBRL/", "PublicDoc", "/", "m", ".htm">> }

\* what requests.get gives: an exception, or a response whose content is
\* a corrupt archive or an archive with a namelist
Responses ==
    {[exc |-> TRUE]}
    \cup {[exc |-> FALSE, ctype |-> c, zip |-> [ok |-> FALSE]] : c \in ContentTypes}
    \cup {[exc |-> FALSE, ctype |-> c, zip |-> [ok |-> TRUE, names |-> n]] :
            c \in ContentTypes, n \in BSeq(EntryNames, MaxEntries)}

EndsWith(s, suffix) ==
    Len(s) >= Len(suffix) /\ SubSeq(s, Len(s) - Len(suffix) + 1, Len(s)) = suffix

\* line 120
IsCsvEntry(name) == EndsWith(name, <<".csv">>)

\* line 133
IsXbrlEntry(name) == IsSubstr(<<"PublicDoc">>, name) /\ EndsWith(name, <<".xbrl">>)

\* the entry each attempt looks for
Wanted(type, name) == IF type = CsvType THEN IsCsvEntry(name) ELSE IsXbrlEntry(name)

\* lines 115-120 and 129-133: the request, the content type test, the
\* opening of the archive and the search of its namelist
OpenArchive(resp, type) ==
    IF resp.exc THEN [ok |-> FALSE, cause |-> "transport"]
    ELSE IF ~IsSubstr(<<"zip">>, resp.ctype) THEN [ok |-> FALSE, cause |-> "content type"]
    ELSE IF ~resp.zip.ok THEN [ok |-> FALSE, cause |-> "corrupt archive"]
    ELSE LET at == {i \in 1..Len(resp.zip.names) : Wanted(type, resp.zip.names[i])}
         IN  IF at = {} THEN [ok |-> FALSE, cause |-> "no entry"]
             ELSE [ok |-> TRUE, name |-> resp.zip.names[Min(at)]]

\* line 125
CsvReturn(df) == [metrics |-> extract_financial_metrics(df), source |-> "CSV"]

\* line 136, with the tag of line 125
XbrlReturnCsvTag(doc) == [metrics |-> extract_metrics_from_xbrl(doc), source |-> "CSV"]

\* line 136
XbrlReturn(doc) == [metrics |-> extract_metrics_from_xbrl(doc), source |-> "XBRL"]

NoResult == [metrics |-> <<>>, source |-> ""]
NoOrigin == [type |-> 0, name |-> <<>>, data |-> [k |-> "none"]]

FetchIdle ==
    /\ csv_flag = Str(<<"0">>)
    /\ fpc = "idle"
    /\ requests = <<>>
    /\ failures = <<>>
    /\ entry = <<>>
    /\ fresult = NoResult
    /\ origin = NoOrigin

----------------------------------------------------------------------------
(* save_csv *)

\* the entries of docID_dict (lines 185-191)
NumDocs == 5

TempZip(i) == <<"zip", i>>
Folder(i) == <<"dir", i>>

SaveIdle ==
    /\ spc = "idle"
    /\ sidx = 0
    /\ files = {}
    /\ scontent = "none"
    /\ ended = <<>>

----------------------------------------------------------------------------
(* search_docid_by_company_name: the scan *)

LocateInit ==
    /\ company \in Companies
    /\ today \in 0..6
    /\ iter = 0
    /\ lpc = "loop"
    /\ listing = <<>>
    /\ ridx = 0
    /\ lresult = NotFound
    /\ history = <<>>
    /\ FetchIdle
    /\ SaveIdle

\* lines 33-36: a Saturday or Sunday is skipped without a request
SkipWeekend ==
    /\ lpc = "loop" /\ iter < DaysBack
    /\ Weekday(iter + 1) >= 5
    /\ iter' = iter + 1
    /\ UNCHANGED <<company, today, lpc, listing, ridx, lresult, history>>
    /\ UNCHANGED <<fvars, svars>>

\* lines 40-42, 48-49: requests.get raises, raise_for_status raises on a
\* non-2xx status, or res.json() raises on an unparsable body
QueryFails ==
    /\ lpc = "loop" /\ iter < DaysBack
    /\ Weekday(iter + 1) < 5
    /\ history' = Append(history, [day |-> iter + 1, kind |-> "failed", firstMatch |-> 0])
    /\ iter' = iter + 1
    /\ lpc' = OnQueryException(lresult).pc
    /\ lresult' = OnQueryException(lresult).result
    /\ UNCHANGED <<company, today, listing, ridx>>
    /\ UNCHANGED <<fvars, svars>>

\* lines 40-42: the day's listing arrives
QueryListed ==
    /\ lpc = "loop" /\ iter < DaysBack
    /\ Weekday(iter + 1) < 5
    /\ \E shapes \in BSeq(DocShapes, MaxRecs) :
         /\ listing' = MkListing(iter + 1, shapes)
         /\ history' = Append(history, [day |-> iter + 1, kind |-> "listed",
                                        firstMatch |-> FirstMatch(listing')])
    /\ iter' = iter + 1
    /\ ridx' = 1
    /\ lpc' = "scan"
    /\ UNCHANGED <<company, today, lresult>>
    /\ UNCHANGED <<fvars, svars>>

\* lines 42-47: the record at ridx is no match, the loop goes on
RecordSkipped ==
    /\ lpc = "scan" /\ ridx <= Len(listing)
    /\ Examine(listing[ridx]) = "next"
    /\ ridx' = ridx + 1
    /\ UNCHANGED <<company, today, iter, lpc, listing, lresult, history>>
    /\ UNCHANGED <<fvars, svars>>

\* lines 46-47: the record at ridx matches and is returned
RecordReturned ==
    /\ lpc = "scan" /\ ridx <= Len(listing)
    /\ Examine(listing[ridx]) = "return"
    /\ lresult' = Found(listing[ridx])
    /\ lpc' = "done"
    /\ UNCHANGED <<company, today, iter, listing, ridx, history>>
    /\ UNCHANGED <<fvars, svars>>

\* lines 46, 48-49: the test raises TypeError, caught by `except Exception`
RecordRaises ==
    /\ lpc = "scan" /\ ridx <= Len(listing)
    /\ Examine(listing[ridx]) = "raise"
    /\ lpc' = OnQueryException(lresult).pc
    /\ lresult' = OnQueryException(lresult).result
    /\ UNCHANGED <<company, today, iter, listing, ridx, history>>
    /\ UNCHANGED <<fvars, svars>>

\* line 42: the listing is exhausted, on to the next day
ListingExhausted ==
    /\ lpc = "scan" /\ ridx > Len(listing)
    /\ lpc' = "loop"
    /\ UNCHANGED <<company, today, iter, listing, ridx, lresult, history>>
    /\ UNCHANGED <<fvars, svars>>

\* line 50: days_back iterations done without a return
ScanExhausted ==
    /\ lpc = "loop" /\ iter = DaysBack
    /\ lresult' = NotFound
    /\ lpc' = "done"
    /\ UNCHANGED <<company, today, iter, listing, ridx, history>>
    /\ UNCHANGED <<fvars, svars>>

LocateNext ==
    \/ SkipWeekend
    \/ QueryFails
    \/ QueryListed
    \/ RecordSkipped
    \/ RecordReturned
    \/ RecordRaises
    \/ ListingExhausted
    \/ ScanExhausted

SpecLocate == LocateInit /\ [][LocateNext]_vars

LocateIdle ==
    /\ company = <<>>
    /\ today = 0
    /\ iter = 0
    /\ lpc = "idle"
    /\ listing = <<>>
    /\ ridx = 0
    /\ lresult = NotFound
    /\ history = <<>>

----------------------------------------------------------------------------
(* fetch_data_by_docid: the attempts *)

FetchInit ==
    /\ csv_flag \in CsvFlags
    /\ fpc = "start"
    /\ requests = <<>>
    /\ failures = <<>>
    /\ entry = <<>>
    /\ fresult = NoResult
    /\ origin = NoOrigin
    /\ LocateIdle
    /\ SaveIdle

\* line 113: use_csv is false, the tabular attempt is not made
SkipCsv ==
    /\ fpc = "start" /\ ~use_csv
    /\ fpc' = "xbrl"
    /\ UNCHANGED <<csv_flag, requests, failures, entry, fresult, origin>>
    /\ UNCHANGED <<lvars, svars>>

\* lines 115-120, 126-127: the tabular attempt ends without a .csv entry
CsvRequestFails ==
    /\ fpc = "start" /\ use_csv
    /\ \E resp \in Responses :
         LET out == OpenArchive(resp, CsvType)
         IN  /\ ~out.ok
             /\ failures' = Append(failures, [type |-> CsvType, cause |-> out.cause])
    /\ requests' = Append(requests, CsvType)
    /\ fpc' = "xbrl"
    /\ UNCHANGED <<csv_flag, entry, fresult, origin>>
    /\ UNCHANGED <<lvars, svars>>

\* lines 115-121: the first .csv entry of the tabular archive is opened
CsvEntryFound ==
    /\ fpc = "start" /\ use_csv
    /\ \E resp \in Responses :
         LET out == OpenArchive(resp, CsvType)
         IN  /\ out.ok
             /\ entry' = out.name
    /\ requests' = Append(requests, CsvType)
    /\ fpc' = "csv_read"
    /\ UNCHANGED <<csv_flag, failures, fresult, origin>>
    /\ UNCHANGED <<lvars, svars>>

\* lines 122-124, 126-127: reading or parsing the entry raises
CsvParseRaises ==
    /\ fpc = "csv_read"
    /\ failures' = Append(failures, [type |-> CsvType, cause |-> "unreadable entry"])
    /\ fpc' = "xbrl"
    /\ UNCHANGED <<csv_flag, requests, entry, fresult, origin>>
    /\ UNCHANGED <<lvars, svars>>

\* lines 122-125: the entry parses to a table, whose extraction is returned
CsvReturned ==
    /\ fpc = "csv_read"
    /\ \E df \in Tables :
         /\ fresult' = CsvReturn(df)
         /\ origin' = [type |-> CsvType, name |-> entry, data |-> df]
    /\ fpc' = "returned"
    /\ UNCHANGED <<csv_flag, requests, failures, entry>>
    /\ UNCHANGED <<lvars, svars>>

\* lines 129-133, 137-139: the tagged attempt ends without an entry, and
\* ValueError is raised
XbrlRequestFails ==
    /\ fpc = "xbrl"
    /\ \E resp \in Responses :
         LET out == OpenArchive(resp, XbrlType)
         IN  /\ ~out.ok
             /\ failures' = Append(failures, [type |-> XbrlType, cause |-> out.cause])
    /\ requests' = Append(requests, XbrlType)
    /\ fpc' = "raised"
    /\ UNCHANGED <<csv_flag, entry, fresult, origin>>
    /\ UNCHANGED <<lvars, svars>>

\* lines 129-134: the first PublicDoc .xbrl entry is opened
XbrlEntryFound ==
    /\ fpc = "xbrl"
    /\ \E resp \in Responses :
         LET out == OpenArchive(resp, XbrlType)
         IN  /\ out.ok
             /\ entry' = out.name
    /\ requests' = Append(requests, XbrlType)
    /\ fpc' = "xbrl_read"
    /\ UNCHANGED <<csv_flag, failures, fresult, origin>>
    /\ UNCHANGED <<lvars, svars>>

\* lines 135, 137-139: reading the entry raises, and ValueError is raised
XbrlReadRaises ==
    /\ fpc = "xbrl_read"
    /\ failures' = Append(failures, [type |-> XbrlType, cause |-> "unreadable entry"])
    /\ fpc' = "raised"
    /\ UNCHANGED <<csv_flag, requests, entry, fresult, origin>>
    /\ UNCHANGED <<lvars, svars>>

\* lines 135-136: the entry's text is extracted and returned
XbrlReturned ==
    /\ fpc = "xbrl_read"
    /\ \E doc \in XmlDocs :
         /\ fresult' = XbrlReturn(doc)
         /\ origin' = [type |-> XbrlType, name |-> entry, data |-> doc]
    /\ fpc' = "returned"
    /\ UNCHANGED <<csv_flag, requests, failures, entry>>
    /\ UNCHANGED <<lvars, svars>>

FetchNext ==
    \/ SkipCsv
    \/ CsvRequestFails
    \/ CsvEntryFound
    \/ CsvParseRaises
    \/ CsvReturned
    \/ XbrlRequestFails
    \/ XbrlEntryFound
    \/ XbrlReadRaises
    \/ XbrlReturned

SpecFetch == FetchInit /\ [][FetchNext]_vars

----------------------------------------------------------------------------
(* save_csv: the calls of lines 194-195 *)

SaveInit ==
    /\ spc = "call"
    /\ sidx = 1
    /\ files = {}
    /\ scontent = "none"
    /\ ended = <<>>
    /\ LocateIdle
    /\ FetchIdle

\* after a return: the next docID, or the end of the loop
AfterReturn == IF sidx = NumDocs THEN "finished" ELSE "call"

\* line 58: requests.get raises; nothing has been written
SaveRequestRaises ==
    /\ spc = "call"
    /\ ended' = Append(ended, [doc |-> sidx, how |-> "raised", wrote |-> FALSE])
    /\ spc' = "crashed"
    /\ UNCHANGED <<sidx, files, scontent>>
    /\ UNCHANGED <<lvars, fvars>>

\* lines 59-61: a status other than 200
SaveNot200 ==
    /\ spc = "call"
    /\ ended' = Append(ended, [doc |-> sidx, how |-> "returned", wrote |-> FALSE])
    /\ spc' = AfterReturn
    /\ sidx' = IF sidx = NumDocs THEN sidx ELSE sidx + 1
    /\ UNCHANGED <<files, scontent>>
    /\ UNCHANGED <<lvars, fvars>>

\* lines 62-65: the folder is made and r.content written to <docID>.zip
SaveWritten ==
    /\ spc = "call"
    /\ scontent' \in {"zip", "corrupt"}
    /\ files' = files \cup {Folder(sidx), TempZip(sidx)}
    /\ spc' = "written"
    /\ UNCHANGED <<sidx, ended>>
    /\ UNCHANGED <<lvars, fvars>>

\* line 66: zipfile.ZipFile raises BadZipFile on a corrupt archive
SaveOpenRaises ==
    /\ spc = "written" /\ scontent = "corrupt"
    /\ ended' = Append(ended, [doc |-> sidx, how |-> "raised", wrote |-> TRUE])
    /\ spc' = "crashed"
    /\ UNCHANGED <<sidx, files, scontent>>
    /\ UNCHANGED <<lvars, fvars>>

\* line 67: extractall raises part-way (a bad entry, a full disk)
SaveExtractRaises ==
    /\ spc = "written" /\ scontent = "zip"
    /\ ended' = Append(ended, [doc |-> sidx, how |-> "raised", wrote |-> TRUE])
    /\ spc' = "crashed"
    /\ UNCHANGED <<sidx, files, scontent>>
    /\ UNCHANGED <<lvars, fvars>>

\* lines 66-67: the archive is extracted into the folder
SaveExtracted ==
    /\ spc = "written" /\ scontent = "zip"
    /\ spc' = "extracted"
    /\ UNCHANGED <<sidx, files, scontent, ended>>
    /\ UNCHANGED <<lvars, fvars>>

\* line 68: os.remove(temp_zip), and the call returns
SaveRemoved ==
    /\ spc = "extracted"
    /\ files' = files \ {TempZip(sidx)}
    /\ ended' = Append(ended, [doc |-> sidx, how |-> "returned", wrote |-> TRUE])
    /\ spc' = AfterReturn
    /\ sidx' = IF sidx = NumDocs THEN sidx ELSE sidx + 1
    /\ scontent' = "none"
    /\ UNCHANGED <<lvars, fvars>>

SaveNext ==
    \/ SaveRequestRaises
    \/ SaveNot200
    \/ SaveWritten
    \/ SaveOpenRaises
    \/ SaveExtractRaises
    \/ SaveExtracted
    \/ SaveRemoved

SpecSave == SaveInit /\ [][SaveNext]_vars

----------------------------------------------------------------------------
(* Properties of search_docid_by_company_name, under SpecLocate *)

Last(q) == q[Len(q)]

\* C4: the scan returns the first matching record of the most recent queried
\* day whose listing holds one, and queries no day earlier than that day:
\* once the scan is done, every listed day with a matching record is the
\* day the result comes from and the last day queried.
C4_MostRecentMatchingDayWins ==
    lpc = "done" =>
        \A k \in 1..Len(history) :
            (history[k].kind = "listed" /\ history[k].firstMatch > 0) =>
                /\ lresult.docID = Str(<<history[k].day, history[k].firstMatch>>)
                /\ iter = history[k].day

\* C5: a failing registry query never aborts the scan.  After a failed day
\* the scan moves on to the next earlier day; NotFound is returned only once
\* every one of the days_back days has been consumed (every weekday among
\* them queried); a record that is returned comes from the last queried
\* day, a day whose listing arrived; and nothing is raised.
C5_FailedDaySwallowed ==
    /\ lpc \in {"loop", "scan", "done"}
    /\ \A k \in 1..Len(history) :
         history[k].kind = "failed" =>
            \/ iter > history[k].day
            \/ lpc = "loop"
            \/ (lpc = "done" /\ iter = DaysBack /\ lresult = NotFound)
    /\ (lpc = "done" /\ lresult = NotFound) =>
            /\ iter = DaysBack
            /\ \A d \in 1..DaysBack :
                 Weekday(d) < 5 => \E k \in 1..Len(history) : history[k].day = d
    /\ (lpc = "done" /\ lresult # NotFound) =>
            /\ history # <<>>
            /\ Last(history).kind = "listed"
            /\ Last(history).day = iter
            /\ \E i \in 1..Len(listing) :
                 /\ lresult = Found(listing[i])
                 /\ Examine(listing[i]) = "return"
                 /\ \A j \in 1..(i - 1) : Examine(listing[j]) = "next"

\* a match returned from a day queried after a day whose query failed
C5_Witness ==
    /\ lpc = "done"
    /\ lresult # NotFound
    /\ \E k \in 1..Len(history) : history[k].kind = "failed"

\* C10: within one retrieved listing a record whose filer name or
\* description is null or missing is a non-match and the records after it
\* are still examined: when the scan of a listing that holds a matching
\* record is over, that record has been returned.
C10_NullRecordIsNonMatch ==
    ( /\ lpc # "scan"
      /\ history # <<>>
      /\ Last(history).kind = "listed"
      /\ Last(history).day = iter
      /\ FirstMatch(listing) > 0 ) =>
        /\ lpc = "done"
        /\ lresult = Found(listing[FirstMatch(listing)])

----------------------------------------------------------------------------
(* Properties of fetch_data_by_docid and the extractors, under SpecFetch *)

Canonical == {"NetSales", "OperatingIncome", "OrdinaryIncome", "NetIncome"}

\* C1: every metric map returned has exactly the four canonical keys.
C1_FourCanonicalKeys ==
    fpc = "returned" => DOMAIN fresult.metrics = Canonical

\* C2: a table lacking a required column is never returned to the caller
\* as a result tagged "CSV".
C2_MissingColumnsFallsBack ==
    ~( /\ fpc = "returned"
       /\ fresult.source = "CSV"
       /\ ~({ItemIdCol, AmountCol} \subseteq origin.data.cols) )

Preferred == IF use_csv THEN CsvType ELSE XbrlType
Alternate == IF use_csv THEN XbrlType ELSE CsvType

\* C3: the preferred representation is requested first; when that attempt
\* fails (transport, content type, corrupt archive, no entry, unreadable
\* entry) the other representation is requested exactly once, in both
\* directions; when it succeeds no further request is made; there are never
\* more than two requests.
C3_AlternateTriedOnceEitherWay ==
    fpc \in {"returned", "raised"} =>
        /\ requests # <<>> /\ requests[1] = Preferred
        /\ Len(requests) <= 2
        /\ (failures # <<>> /\ failures[1].type = Preferred) =>
                requests = <<Preferred, Alternate>>
        /\ failures = <<>> => requests = <<Preferred>>

\* the first element named OperatingIncome reads 500
ReadsOperatingIncome500(doc) ==
    /\ Find(doc, "OperatingIncome") # 0
    /\ doc.elems[Find(doc, "OperatingIncome")].text = <<"5", "0", "0">>

\* C9: the tag of a returned result names the representation that was
\* fetched last and whose entry was extracted: "CSV" only for a .csv entry
\* of the type-5 archive, "XBRL" only for a PublicDoc .xbrl entry of the
\* type-1 archive.  After a tabular attempt that failed on a corrupt archive
\* and a tagged document reading OperatingIncome 500, the result holds
\* OperatingIncome = 500 and the tag XBRL.
C9_TagNamesSource ==
    fpc = "returned" =>
        /\ fresult.source \in {"CSV", "XBRL"}
        /\ fresult.source = "CSV" =>
              /\ origin.type = CsvType /\ Last(requests) = CsvType
              /\ IsCsvEntry(origin.name) /\ origin.data.k = "table"
        /\ fresult.source = "XBRL" =>
              /\ origin.type = XbrlType /\ Last(requests) = XbrlType
              /\ IsXbrlEntry(origin.name) /\ origin.data.k = "xml"
        /\ ( /\ failures = <<[type |-> CsvType, cause |-> "corrupt archive"]>>
             /\ origin.data.k = "xml"
             /\ ReadsOperatingIncome500(origin.data) ) =>
              /\ fresult.metrics["OperatingIncome"] = Str(<<"5", "0", "0">>)
              /\ fresult.source = "XBRL"

\* the scenario: corrupt tabular archive, then OperatingIncome 500 from XBRL
C9_Witness ==
    /\ fpc = "returned"
    /\ failures = <<[type |-> CsvType, cause |-> "corrupt archive"]>>
    /\ requests = <<CsvType, XbrlType>>
    /\ fresult.source = "XBRL"
    /\ fresult.metrics["OperatingIncome"] = Str(<<"5", "0", "0">>)

FromXbrl == fpc = "returned" /\ origin.data.k = "xml"

\* the value the first element named tag carries
ValueOf(doc, tag) == Str(Strip(doc.elems[Find(doc, tag)].text))

\* C6 as stated: whenever the document holds an element named by the first
\* alias A of a metric and one named by a later alias B, the metric's value
\* is the one carried by A.
C6_FirstAliasAlwaysWins ==
    FromXbrl =>
        \A label \in DOMAIN tag_map :
            \A j \in 2..Len(tag_map[label]) :
                ( /\ Find(origin.data, tag_map[label][1]) # 0
                  /\ Find(origin.data, tag_map[label][j]) # 0 ) =>
                    fresult.metrics[label] = ValueOf(origin.data, tag_map[label][1])

\* C6 amended: whenever the document holds an element named by the first
\* alias A and one named by a later alias B, and the text of A passes the
\* digit test of line 101, the metric's value is the one carried by A.
C6_FirstAcceptedAliasWins ==
    FromXbrl =>
        \A label \in DOMAIN tag_map :
            \A j \in 2..Len(tag_map[label]) :
                ( /\ Accepted(origin.data, tag_map[label][1])
                  /\ Find(origin.data, tag_map[label][j]) # 0 ) =>
                    fresult.metrics[label] = ValueOf(origin.data, tag_map[label][1])

\* both NetSales and NetSalesConsolidated carry accepted, different values
C6_Witness ==
    /\ FromXbrl
    /\ Accepted(origin.data, "NetSales")
    /\ Accepted(origin.data, "NetSalesConsolidated")
    /\ ValueOf(origin.data, "NetSales") # ValueOf(origin.data, "NetSalesConsolidated")
    /\ fresult.metrics["NetSales"] = ValueOf(origin.data, "NetSales")

\* C7: a value stored for a metric by extract_metrics_from_xbrl is either
\* the sentinel N/A or a non-empty sequence of the decimal digits 0-9.
C7_OnlyAsciiDigitsStored ==
    FromXbrl =>
        \A label \in DOMAIN tag_map :
            fresult.metrics[label] # NA =>
                /\ Len(fresult.metrics[label].s) > 0
                /\ \A i \in 1..Len(fresult.metrics[label].s) :
                     fresult.metrics[label].s[i] \in AsciiDigits

----------------------------------------------------------------------------
(* Properties of save_csv, under SpecSave *)

\* C8: no save_csv call that has stopped after writing <docID>.zip leaves
\* that file on disk.
C8_TempZipReleased ==
    \A k \in 1..Len(ended) :
        ended[k].wrote => TempZip(ended[k].doc) \notin files

====
